---- MODULE Spec2Model ----
(***************************************************************************)
(* A model of the BFTConsensus engine of src/index.ts: the two vote maps   *)
(* (prepareMessages, commitMessages), the height counter and the messages  *)
(* each call broadcasts.                                                   *)
(***************************************************************************)
EXTENDS Integers, Sequences, FiniteSets, TLC

\* ------------------------------------------------------------------ bounds
\* currentHeight is capped: a call that would finalize past it is not taken.
MaxHeight == 1
\* The largest validator set the quorum arithmetic is checked for.
MaxValidators == 10

\* ---------------------------------------------------------------- the data
\* const validators = ["validator1", ..., "validator4"]
validators == {"validator1", "validator2", "validator3", "validator4"}

\* Senders a message may name: the validators and one id outside the set.
ValidatorIds == validators \cup {"validator5"}

\* getCurrentBlockHash(): the placeholder every engine computes.
getCurrentBlockHash == "placeholder_hash"

\* Hashes a message may carry: the placeholder and one other hash.
Hashes == {getCurrentBlockHash, "other_hash"}

\* blockHeight values a message may carry.
Heights == 0..(MaxHeight + 1)

\* ConsensusMessage, without its signature (no code reads it).
Message(type, blockHeight, blockHash, validatorId) ==
    [type |-> type, blockHeight |-> blockHeight, blockHash |-> blockHash,
     validatorId |-> validatorId]

\* The votes a peer may send, and the NEW_ROUND signals (blockHash "").
VoteMessages ==
    {Message(t, h, b, v) : t \in {"PREPARE", "COMMIT"}, h \in Heights,
                           b \in Hashes, v \in ValidatorIds}
NewRoundMessages ==
    {Message("NEW_ROUND", h, "", v) : h \in Heights, v \in ValidatorIds}
Messages == VoteMessages \cup NewRoundMessages

\* new Map(): a function with an empty domain; Map.set.
EmptyMap == [h \in {} |-> {}]
MapSet(map, key, value) ==
    [h \in (DOMAIN map) \cup {key} |-> IF h = key THEN value ELSE map[h]]

\* The set a tally holds for a hash ({} when the map has no such key).
Tally(map, hash) == IF hash \in DOMAIN map THEN map[hash] ELSE {}

\* The threshold without its "+ 1": two thirds, rounded down.
RequiredConsensusTwoThirds(size) == (size * 2) \div 3

\* Math.floor((this.validators.size * 2) / 3) + 1
RequiredConsensus(size) == ((size * 2) \div 3) + 1

\* constructor(validatorId, initialValidators)
Constructor(validatorId, initialValidators) ==
    [validators |-> initialValidators,
     validatorId |-> validatorId,
     prepareMessages |-> EmptyMap,
     commitMessages |-> EmptyMap,
     currentHeight |-> 0,
     requiredConsensus |-> RequiredConsensus(Cardinality(initialValidators))]

\* -------------------------------------------------------------- the state
VARIABLES
    consensus,   \* validator id -> its BFTConsensus instance
    finalized,   \* validator id -> the <<height, hash>> pairs it finalized
    network,     \* every message the engines have broadcast so far
    quorumA,     \* two sets of validators that each reach requiredConsensus
    quorumB

vars == <<consensus, finalized, network, quorumA, quorumB>>

\* ------------------------------------------------------------ the methods
\* A run of a method: the instance as it stands and the messages broadcast.
Run(self) == [self |-> self, out |-> <<>>]

\* broadcast(message)
broadcast(r, message) == [r EXCEPT !.out = Append(@, message)]

\* verifyMessage(message)
verifyMessage(self, message) == message.validatorId \in self.validators

\* broadcastPrepare(block)
broadcastPrepare(r, block) ==
    broadcast(r, Message("PREPARE", block.height, getCurrentBlockHash,
                         r.self.validatorId))

\* broadcastCommit(blockHash)
broadcastCommit(r, blockHash) ==
    broadcast(r, Message("COMMIT", r.self.currentHeight + 1, blockHash,
                         r.self.validatorId))

\* finalizeBlock without its this.prepareMessages.clear().
finalizeBlockKeepPrepares(r, blockHash) ==
    LET r1 == [r EXCEPT !.self.currentHeight = @ + 1,
                        !.self.commitMessages = EmptyMap]
    IN  broadcast(r1, Message("NEW_ROUND", r1.self.currentHeight + 1, "",
                              r1.self.validatorId))

\* finalizeBlock without its this.commitMessages.clear().
finalizeBlockKeepCommits(r, blockHash) ==
    LET r1 == [r EXCEPT !.self.currentHeight = @ + 1,
                        !.self.prepareMessages = EmptyMap]
    IN  broadcast(r1, Message("NEW_ROUND", r1.self.currentHeight + 1, "",
                              r1.self.validatorId))

\* finalizeBlock(blockHash)
finalizeBlock(r, blockHash) ==
    LET r1 == [r EXCEPT !.self.currentHeight = @ + 1,
                        !.self.prepareMessages = EmptyMap,
                        !.self.commitMessages = EmptyMap]
    IN  broadcast(r1, Message("NEW_ROUND", r1.self.currentHeight + 1, "",
                              r1.self.validatorId))

\* startNewRound with "height < this.currentHeight" for "<=".
startNewRoundStrict(r, height) ==
    IF height < r.self.currentHeight
    THEN r
    ELSE [r EXCEPT !.self.prepareMessages = EmptyMap,
                   !.self.commitMessages = EmptyMap]

\* startNewRound that adopts the height announced as this.currentHeight,
\* without the early return for an old height.
startNewRoundAdopt(r, height) ==
    [r EXCEPT !.self.currentHeight = height,
              !.self.prepareMessages = EmptyMap,
              !.self.commitMessages = EmptyMap]

\* startNewRound(height)
startNewRound(r, height) ==
    IF height <= r.self.currentHeight
    THEN r
    ELSE [r EXCEPT !.self.prepareMessages = EmptyMap,
                   !.self.commitMessages = EmptyMap]

\* handlePrepareMessage with the engine's own vote counted toward the
\* threshold without being in the tally (prepares.size + 1).
handlePrepareMessageCountSelf(r, message) ==
    IF ~verifyMessage(r.self, message)
    THEN r
    ELSE LET map == IF message.blockHash \in DOMAIN r.self.prepareMessages
                    THEN r.self.prepareMessages
                    ELSE MapSet(r.self.prepareMessages, message.blockHash, {})
             prepares == map[message.blockHash] \cup {message.validatorId}
             r1 == [r EXCEPT !.self.prepareMessages =
                                 MapSet(map, message.blockHash, prepares)]
         IN  IF Cardinality(prepares) + 1 >= r.self.requiredConsensus
             THEN broadcastCommit(r1, message.blockHash)
             ELSE r1

\* handlePrepareMessage(message)
handlePrepareMessage(r, message) ==
    IF ~verifyMessage(r.self, message)
    THEN r
    ELSE LET map == IF message.blockHash \in DOMAIN r.self.prepareMessages
                    THEN r.self.prepareMessages
                    ELSE MapSet(r.self.prepareMessages, message.blockHash, {})
             prepares == map[message.blockHash] \cup {message.validatorId}
             r1 == [r EXCEPT !.self.prepareMessages =
                                 MapSet(map, message.blockHash, prepares)]
         IN  IF Cardinality(prepares) >= r.self.requiredConsensus
             THEN broadcastCommit(r1, message.blockHash)
             ELSE r1

\* handleCommitMessage with the threshold tested on the COMMIT votes of all
\* hashes together instead of those of the message's hash.
handleCommitMessageAnyHash(r, message) ==
    IF ~verifyMessage(r.self, message)
    THEN r
    ELSE LET map == IF message.blockHash \in DOMAIN r.self.commitMessages
                    THEN r.self.commitMessages
                    ELSE MapSet(r.self.commitMessages, message.blockHash, {})
             commits == map[message.blockHash] \cup {message.validatorId}
             r1 == [r EXCEPT !.self.commitMessages =
                                 MapSet(map, message.blockHash, commits)]
             all == UNION {r1.self.commitMessages[h] :
                               h \in DOMAIN r1.self.commitMessages}
         IN  IF Cardinality(all) >= r.self.requiredConsensus
             THEN finalizeBlock(r1, message.blockHash)
             ELSE r1

\* handleCommitMessage with "commits.size > this.requiredConsensus" for ">=".
handleCommitMessageStrict(r, message) ==
    IF ~verifyMessage(r.self, message)
    THEN r
    ELSE LET map == IF message.blockHash \in DOMAIN r.self.commitMessages
                    THEN r.self.commitMessages
                    ELSE MapSet(r.self.commitMessages, message.blockHash, {})
             commits == map[message.blockHash] \cup {message.validatorId}
             r1 == [r EXCEPT !.self.commitMessages =
                                 MapSet(map, message.blockHash, commits)]
         IN  IF Cardinality(commits) > r.self.requiredConsensus
             THEN finalizeBlock(r1, message.blockHash)
             ELSE r1

\* handleCommitMessage(message)
handleCommitMessage(r, message) ==
    IF ~verifyMessage(r.self, message)
    THEN r
    ELSE LET map == IF message.blockHash \in DOMAIN r.self.commitMessages
                    THEN r.self.commitMessages
                    ELSE MapSet(r.self.commitMessages, message.blockHash, {})
             commits == map[message.blockHash] \cup {message.validatorId}
             r1 == [r EXCEPT !.self.commitMessages =
                                 MapSet(map, message.blockHash, commits)]
         IN  IF Cardinality(commits) >= r.self.requiredConsensus
             THEN finalizeBlock(r1, message.blockHash)
             ELSE r1

\* handleConsensusMessage(message)
handleConsensusMessage(self, message) ==
    CASE message.type = "PREPARE" -> handlePrepareMessage(Run(self), message)
      [] message.type = "COMMIT" -> handleCommitMessage(Run(self), message)
      [] message.type = "NEW_ROUND" ->
             startNewRound(Run(self), message.blockHeight)
      [] OTHER -> Run(self)

\* The Block proposeBlock builds (its transactions, timestamp and signatures
\* are read by no code).
NewBlock(self) ==
    [height |-> self.currentHeight + 1,
     previousHash |-> getCurrentBlockHash,
     proposer |-> self.validatorId]

\* proposeBlock(transactions)
proposeBlock(self) == broadcastPrepare(Run(self), NewBlock(self))

\* ------------------------------------------------------------ the actions
\* Whether a run finalized: finalizeBlock is the only sender of NEW_ROUND.
Finalizes(r) == \E k \in 1..Len(r.out) : r.out[k].type = "NEW_ROUND"

\* The finalizations so far, with the one of run r, if any: finalizeBlock(
\* message.blockHash) at the height it moved the engine to.
Record(log, v, r, message) ==
    IF Finalizes(r)
    THEN [log EXCEPT ![v] =
             @ \cup {<<r.self.currentHeight, message.blockHash>>}]
    ELSE log

\* The messages of a sequence, as a set.
Range(seq) == {seq[k] : k \in 1..Len(seq)}

\* const validator1Consensus = new BFTConsensus("validator1", validators):
\* one engine, called by a harness that hands it any message; broadcast only
\* logs, so nothing reaches a network, and no record of finalizations is kept.
Init ==
    /\ consensus = [v \in {"validator1"} |-> Constructor(v, validators)]
    /\ finalized = [v \in {"validator1"} |-> {}]
    /\ network = {}
    /\ quorumA = {}
    /\ quorumB = {}

\* validator1Consensus.proposeBlock(transactions)
Propose(v) ==
    /\ consensus' = [consensus EXCEPT ![v] = proposeBlock(consensus[v]).self]
    /\ UNCHANGED <<finalized, network, quorumA, quorumB>>

\* validator1Consensus.handleConsensusMessage(message)
Handle(v, message) ==
    LET r == handleConsensusMessage(consensus[v], message)
    IN  /\ r.self.currentHeight <= MaxHeight
        /\ consensus' = [consensus EXCEPT ![v] = r.self]
        /\ UNCHANGED <<finalized, network, quorumA, quorumB>>

Next ==
    \/ Propose("validator1")
    \/ \E message \in Messages : Handle("validator1", message)

Spec == Init /\ [][Next]_vars

\* The engine of Spec, and a call of it on a message.
Engine == consensus["validator1"]
Call(message) == handleConsensusMessage(Engine, message)

\* ------------------------------------------------ an engine in a network
\* floor((n-1)/3): the number of validators that may send anything.
MaxFaulty(n) == (n - 1) \div 3
Byzantine == {"validator4"}
Honest == validators \ Byzantine

\* Anything a Byzantine validator may send under its own id.
ByzantineMessages == {m \in Messages : m.validatorId \in Byzantine}

\* What the engine of an honest validator v can broadcast: the PREPARE of
\* proposeBlock, the COMMIT of broadcastCommit for the hash honest engines
\* prepare, the NEW_ROUND of finalizeBlock.
HonestMessages(v) ==
    {Message(t, h, getCurrentBlockHash, v) :
         t \in {"PREPARE", "COMMIT"}, h \in Heights}
    \cup {Message("NEW_ROUND", h, "", v) : h \in Heights}

\* What may reach the engine of validator v: what the engine of validator1
\* has broadcast, every message an honest peer's engine can broadcast (its own
\* too: handleNetworkMessage hands a message to every engine), and anything
\* from the Byzantine validator.
Inbound(v) ==
    network \cup ByzantineMessages
            \cup UNION {HonestMessages(w) : w \in Honest \ {"validator1"}}

\* The engine of validator1 runs among its peers: broadcast puts a message on
\* the network, which keeps it for ever, so it may reach an engine any number
\* of times, in any order, or never.  The engines of the honest peers are
\* followed only as far as their messages and, for validator2 (validator3 is
\* in the same position), their finalizations.
NetInit ==
    /\ consensus = [v \in {"validator1"} |-> Constructor(v, validators)]
    /\ finalized = [v \in {"validator1", "validator2"} |-> {}]
    /\ network = {}
    /\ quorumA = {}
    /\ quorumB = {}

NetPropose(v) ==
    LET r == proposeBlock(consensus[v])
    IN  /\ consensus' = [consensus EXCEPT ![v] = r.self]
        /\ network' = network \cup Range(r.out)
        /\ UNCHANGED <<finalized, quorumA, quorumB>>

\* handleNetworkMessage(message), for the engine of validator1
NetDeliver(v, message) ==
    LET r == handleConsensusMessage(consensus[v], message)
    IN  /\ r.self.currentHeight <= MaxHeight
        /\ consensus' = [consensus EXCEPT ![v] = r.self]
        /\ network' = network \cup Range(r.out)
        /\ finalized' = Record(finalized, v, r, message)
        /\ UNCHANGED <<quorumA, quorumB>>

\* The members whose COMMIT for a hash may have reached the engine of w.
CommitSenders(w, hash) ==
    {m.validatorId : m \in {c \in Inbound(w) : /\ c.type = "COMMIT"
                                               /\ c.blockHash = hash
                                               /\ c.validatorId \in validators}}

\* The engine of an honest peer finalizes: COMMITs for one hash from
\* requiredConsensus members have reached it (commits.size >=
\* this.requiredConsensus), and its height goes up by one.
PeerFinalize(w, hash) ==
    /\ Cardinality(finalized[w]) < MaxHeight
    /\ Cardinality(CommitSenders(w, hash))
           >= RequiredConsensus(Cardinality(validators))
    /\ finalized' =
           [finalized EXCEPT ![w] = @ \cup {<<Cardinality(@) + 1, hash>>}]
    /\ UNCHANGED <<consensus, network, quorumA, quorumB>>

NetNext ==
    \/ NetPropose("validator1")
    \/ \E message \in Inbound("validator1") : NetDeliver("validator1", message)
    \/ \E hash \in Hashes : PeerFinalize("validator2", hash)

NetSpec == NetInit /\ [][NetNext]_vars

\* ------------------------------------------- an engine and split votes
\* The engine of validator1 among validators that vote for blocks of their
\* own choice: validator2 and validator3 send PREPARE for one hash at most
\* for a height (the prepareMessage of simulateConsensusRound, written with
\* a blockHeight and a blockHash by hand), the Byzantine validator sends
\* anything, and what is sent stays on the network.
SplitSend(v, height, hash) ==
    /\ \A m \in network :
           (m.type = "PREPARE" /\ m.validatorId = v /\ m.blockHeight = height)
               => m.blockHash = hash
    /\ network' = network \cup {Message("PREPARE", height, hash, v)}
    /\ UNCHANGED <<consensus, finalized, quorumA, quorumB>>

\* handleNetworkMessage(message), for the engine of validator1
SplitDeliver(v, message) ==
    LET r == handleConsensusMessage(consensus[v], message)
    IN  /\ r.self.currentHeight <= MaxHeight
        /\ consensus' = [consensus EXCEPT ![v] = r.self]
        /\ network' = network \cup Range(r.out)
        /\ UNCHANGED <<finalized, quorumA, quorumB>>

SplitNext ==
    \/ NetPropose("validator1")
    \/ \E v \in Honest \ {"validator1"}, height \in Heights \ {0},
          hash \in Hashes : SplitSend(v, height, hash)
    \/ \E message \in network \cup ByzantineMessages :
           SplitDeliver("validator1", message)

SplitSpec == Init /\ [][SplitNext]_vars

\* ------------------------------------------------- the quorum arithmetic
\* A validator set of n members.
ValidatorName(i) == "validator" \o ToString(i)
ValidatorSet(n) == {ValidatorName(i) : i \in 1..n}

\* The sets of validators that reach an engine's requiredConsensus.
Quorums(self) ==
    {q \in SUBSET self.validators : Cardinality(q) >= self.requiredConsensus}

QuorumInit ==
    /\ consensus = EmptyMap
    /\ finalized = EmptyMap
    /\ network = {}
    /\ quorumA = {}
    /\ quorumB = {}

\* new BFTConsensus("validator1", [n validators])
Construct(n) ==
    /\ DOMAIN consensus = {}
    /\ consensus' =
           [v \in {"validator1"} |-> Constructor(v, ValidatorSet(n))]
    /\ UNCHANGED <<finalized, network, quorumA, quorumB>>

\* Two sets of votes, each enough for the engine's threshold.
PickQuorums ==
    /\ DOMAIN consensus # {}
    /\ quorumA = {}
    /\ quorumA' \in Quorums(consensus["validator1"])
    /\ quorumB' \in Quorums(consensus["validator1"])
    /\ UNCHANGED <<consensus, finalized, network>>

QuorumNext ==
    \/ \E n \in 1..MaxValidators : Construct(n)
    \/ PickQuorums

QuorumSpec == QuorumInit /\ [][QuorumNext]_vars

\* -------------------------------------------------------------- C1
\* C1 Agreement: with n = 4 and f = 1, whatever the Byzantine validator
\* sends and in whatever order, number or absence the messages arrive, no two
\* honest engines finalize different hashes at the same height.  The honest
\* peers of validator1 are taken to send nothing outside HonestMessages; the
\* second conjunct shows that the broadcasts of an engine that runs the code
\* never leave HonestMessages.
Agreement ==
    /\ \A v \in DOMAIN finalized, w \in DOMAIN finalized :
           \A p \in finalized[v], q \in finalized[w] :
               p[1] = q[1] => p[2] = q[2]
    /\ network \subseteq HonestMessages("validator1")

\* The engine of validator1 and an honest peer have both finalized at height
\* 1, and the Byzantine validator's PREPARE and COMMIT for the other hash are
\* in the tallies of validator1.
AgreementWitness ==
    /\ DOMAIN finalized = {"validator1", "validator2"}
    /\ \E p \in finalized["validator1"], q \in finalized["validator2"] :
           p[1] = 1 /\ q[1] = 1
    /\ Message("NEW_ROUND", 2, "", "validator1") \in network
    /\ Byzantine \subseteq Tally(Engine.prepareMessages, "other_hash")
    /\ Byzantine \subseteq Tally(Engine.commitMessages, "other_hash")

\* -------------------------------------------------------------- C2
\* The sets of at most f = floor((n-1)/3) validators of an engine's set.
FaultySets(self) ==
    {F \in SUBSET self.validators :
         Cardinality(F) <= MaxFaulty(Cardinality(self.validators))}

\* C2 Quorum intersection: for every validator-set size n in 1..MaxValidators
\* and the requiredConsensus the constructor computes, two sets of at least
\* requiredConsensus validators share a member, and share a member outside
\* every set of at most f validators.
QuorumIntersection ==
    quorumA # {} =>
        /\ quorumA \cap quorumB # {}
        /\ \A F \in FaultySets(consensus["validator1"]) :
               (quorumA \cap quorumB) \ F # {}

\* Ten validators, two different quorums of exactly 7 that share exactly
\* f + 1 = 4 members.
QuorumIntersectionWitness ==
    /\ quorumA # {}
    /\ quorumA # quorumB
    /\ Cardinality(consensus["validator1"].validators) = 10
    /\ Cardinality(quorumA) = 7
    /\ Cardinality(quorumB) = 7
    /\ Cardinality(quorumA \cap quorumB) = MaxFaulty(10) + 1

\* ------------------------------------------------- calls, for C3 to C10
\* The types of the messages a run broadcast.
Emitted(r) == {r.out[k].type : k \in 1..Len(r.out)}

\* Whether a run left both tallies as they were.
SameTallies(r, self) ==
    /\ r.self.prepareMessages = self.prepareMessages
    /\ r.self.commitMessages = self.commitMessages

\* -------------------------------------------------------------- C3
\* C3 Stale drop: in every reachable state of the engine, handling a PREPARE
\* or COMMIT whose blockHeight is below currentHeight (so below the height in
\* progress, currentHeight + 1, too) leaves both tallies and the height as
\* they were, broadcasts no COMMIT and finalizes nothing.
StaleDrop ==
    \A m \in VoteMessages :
        m.blockHeight < Engine.currentHeight =>
            LET r == Call(m)
            IN  /\ SameTallies(r, Engine)
                /\ r.self.currentHeight = Engine.currentHeight
                /\ Emitted(r) \cap {"COMMIT", "NEW_ROUND"} = {}

\* -------------------------------------------------------------- C4
\* C4 Equivocation rejection: in each phase a validator is in the tally of at
\* most one hash, and a vote of a validator already recorded for another hash
\* of that phase is not recorded.
EquivocationRejected ==
    /\ \A map \in {Engine.prepareMessages, Engine.commitMessages} :
           \A a \in DOMAIN map, b \in DOMAIN map :
               a # b => map[a] \cap map[b] = {}
    /\ \A m \in VoteMessages :
           LET map(self) == IF m.type = "PREPARE" THEN self.prepareMessages
                                                   ELSE self.commitMessages
           IN  (\E a \in DOMAIN map(Engine) :
                    a # m.blockHash /\ m.validatorId \in map(Engine)[a])
               => m.validatorId \notin Tally(map(Call(m).self), m.blockHash)

\* -------------------------------------------------------------- C5
\* C5 Quorum triggers exactly once: a PREPARE tally holds requiredConsensus
\* votes only after the call that broadcast COMMIT for its hash, and it is
\* emptied whenever the height changes; in such a state a further PREPARE for
\* that hash, new or repeated, broadcasts no COMMIT.
CommitBroadcastOnce ==
    \A m \in VoteMessages :
        (/\ m.type = "PREPARE"
         /\ Cardinality(Tally(Engine.prepareMessages, m.blockHash))
                >= Engine.requiredConsensus)
        => "COMMIT" \notin Emitted(Call(m))

\* -------------------------------------------------------------- C6
\* C6 Catch-up: a NEW_ROUND for a height above the height in progress leaves
\* the engine with both tallies empty, finalizes nothing on the way, and the
\* block the engine proposes next has the height of the NEW_ROUND.
CatchUp ==
    \A m \in NewRoundMessages :
        m.blockHeight > Engine.currentHeight + 1 =>
            LET r == Call(m)
            IN  /\ r.self.prepareMessages = EmptyMap
                /\ r.self.commitMessages = EmptyMap
                /\ r.out = <<>>
                /\ NewBlock(r.self).height = m.blockHeight

\* -------------------------------------------------------------- C7
\* C7 Membership gate: a message of any type that names a validator outside
\* the engine's validator set changes nothing of the engine and broadcasts
\* nothing.
MembershipGate ==
    \A m \in Messages :
        m.validatorId \notin Engine.validators =>
            /\ Call(m).self = Engine
            /\ Call(m).out = <<>>

\* -------------------------------------------------------------- C8
\* C8 Self-vote on proposal: right after proposeBlock the engine's own id is
\* in the PREPARE tally of the block's hash, so that a PREPARE that brings
\* the other members recorded for that hash to requiredConsensus - 1
\* broadcasts the COMMIT.
SelfVoteOnProposal ==
    LET p == proposeBlock(Engine)
        others(self) == Tally(self.prepareMessages, getCurrentBlockHash)
                            \ {self.validatorId}
    IN  /\ Engine.validatorId
               \in Tally(p.self.prepareMessages, getCurrentBlockHash)
        /\ \A m \in VoteMessages :
               LET r == handleConsensusMessage(p.self, m)
               IN  (/\ m.type = "PREPARE"
                    /\ m.blockHash = getCurrentBlockHash
                    /\ Cardinality(others(r.self))
                           >= Engine.requiredConsensus - 1)
                   => "COMMIT" \in Emitted(r)

\* -------------------------------------------------------------- C9
\* C9 Finalization step: a call that finalizes moves currentHeight up by
\* exactly one and broadcasts exactly one message, the NEW_ROUND for the
\* height after it; and once the engine has finalized a hash at a height, a
\* further COMMIT for that hash and height, from the network or from the
\* Byzantine validator, finalizes nothing.
FinalizationStep ==
    /\ \A m \in Inbound("validator1") :
           LET r == Call(m)
           IN  Finalizes(r) =>
                   /\ r.self.currentHeight = Engine.currentHeight + 1
                   /\ r.out = <<Message("NEW_ROUND", Engine.currentHeight + 2,
                                        "", Engine.validatorId)>>
    /\ \A p \in finalized["validator1"] :
           \A m \in Inbound("validator1") :
               (m.type = "COMMIT" /\ m.blockHeight = p[1]
                                  /\ m.blockHash = p[2])
               => ~Finalizes(Call(m))

\* -------------------------------------------------------------- C10
\* Whether the sender of a vote is already in the tally the vote is for.
Recorded(self, m) ==
    \/ /\ m.type = "PREPARE"
       /\ m.validatorId \in Tally(self.prepareMessages, m.blockHash)
    \/ /\ m.type = "COMMIT"
       /\ m.validatorId \in Tally(self.commitMessages, m.blockHash)

\* C10 Idempotence: a PREPARE (a COMMIT) of a validator already recorded in
\* the PREPARE (COMMIT) tally of the message's hash leaves that tally and
\* every other tally as they were.
Idempotence ==
    \A m \in VoteMessages : Recorded(Engine, m) => SameTallies(Call(m), Engine)

\* Two validators are recorded for a hash in each phase, so a repeated vote
\* has a tally to leave alone, while a vote for the other hash is recorded too.
IdempotenceWitness ==
    \E a \in Hashes, b \in Hashes :
        /\ a # b
        /\ Cardinality(Tally(Engine.prepareMessages, a)) >= 2
        /\ Cardinality(Tally(Engine.commitMessages, a)) >= 2
        /\ Tally(Engine.prepareMessages, b) # {}
        /\ Engine.currentHeight >= 1

\* ------------------------------------------------- calls, for C11 to C20
\* Two messages handed to the engine one after the other.
CallBoth(self, first, second) ==
    LET r1 == handleConsensusMessage(self, first)
        r2 == handleConsensusMessage(r1.self, second)
    IN  [self |-> r2.self, out |-> r1.out \o r2.out]

\* -------------------------------------------------------------- C11
\* C11 Order independence: two votes (PREPARE or COMMIT) of two different
\* validators leave the engine with the same tallies and height, and the same
\* set of broadcast messages, whichever of them is handled first.
OrderIndependence ==
    \A m1 \in VoteMessages, m2 \in VoteMessages :
        m1.validatorId # m2.validatorId =>
            LET a == CallBoth(Engine, m1, m2)
                b == CallBoth(Engine, m2, m1)
            IN  /\ a.self = b.self
                /\ Range(a.out) = Range(b.out)

\* -------------------------------------------------------------- C12
\* C12 Phase ordering: a call finalizes a hash only when the engine's PREPARE
\* tally of that hash holds requiredConsensus votes, that is, only after the
\* engine has seen the PREPARE quorum of the hash and broadcast its COMMIT.
PhaseOrdering ==
    \A m \in Messages :
        Finalizes(Call(m)) =>
            Cardinality(Tally(Engine.prepareMessages, m.blockHash))
                >= Engine.requiredConsensus

\* -------------------------------------------------------------- C13
\* C13 Finalization certificate: a COMMIT that carries another height than
\* the one the engine works on (currentHeight + 1) never counts toward the
\* quorum, so the call that handles it completes no finalization.
FinalizationCertificate ==
    \A m \in VoteMessages :
        (m.type = "COMMIT" /\ m.blockHeight # Engine.currentHeight + 1) =>
            ~Finalizes(Call(m))

\* -------------------------------------------------------------- C14
\* C14 COMMIT only on PREPARE quorum: at every point of every run, every
\* COMMIT a call broadcasts is for a hash whose PREPARE tally, as the call
\* leaves it, holds at least requiredConsensus members of the validator set,
\* and it carries the engine's own id and the height in progress,
\* currentHeight + 1; proposeBlock broadcasts no COMMIT.
CommitOnPrepareQuorum ==
    [](/\ \A m \in Messages :
              LET r == Call(m)
              IN  \A k \in 1..Len(r.out) :
                      r.out[k].type = "COMMIT" =>
                          LET prepares == Tally(r.self.prepareMessages,
                                                r.out[k].blockHash)
                          IN  /\ prepares \subseteq Engine.validators
                              /\ Cardinality(prepares)
                                     >= Engine.requiredConsensus
                              /\ r.out[k].validatorId = Engine.validatorId
                              /\ r.out[k].blockHeight
                                     = Engine.currentHeight + 1
       /\ "COMMIT" \notin Emitted(proposeBlock(Engine)))

\* After a finalization, a PREPARE for a hash that two other members are
\* recorded for is about to complete the quorum and broadcast the COMMIT,
\* while a PREPARE for the other hash, which has one vote, is not.
CommitOnPrepareQuorumWitness ==
    /\ Engine.currentHeight >= 1
    /\ \E m \in VoteMessages :
           /\ "COMMIT" \in Emitted(Call(m))
           /\ Cardinality(Tally(Engine.prepareMessages, m.blockHash))
                  = Engine.requiredConsensus - 1
           /\ \E b \in DOMAIN Engine.prepareMessages :
                  /\ b # m.blockHash
                  /\ Cardinality(Engine.prepareMessages[b]) = 1

\* -------------------------------------------------------------- C15
\* C15 Single COMMIT subject per height: when every validator but the
\* Byzantine one sends PREPARE for at most one hash for a height, the COMMITs
\* the engine broadcasts for one height are all for the same hash.
SingleCommitSubject ==
    \A a \in network, b \in network :
        (/\ a.type = "COMMIT" /\ b.type = "COMMIT"
         /\ a.validatorId = "validator1" /\ b.validatorId = "validator1"
         /\ a.blockHeight = b.blockHeight)
        => a.blockHash = b.blockHash

\* -------------------------------------------------------------- C16
\* C16 Garbage collection: at every point of every run, a call that
\* finalizes, and a call that handles a NEW_ROUND for a height above
\* currentHeight, leave both the PREPARE and the COMMIT tallies empty.
GarbageCollection ==
    [](\A m \in Messages :
           LET r == Call(m)
           IN  (\/ Finalizes(r)
                \/ m.type = "NEW_ROUND" /\ m.blockHeight > Engine.currentHeight)
               => /\ r.self.prepareMessages = EmptyMap
                  /\ r.self.commitMessages = EmptyMap)

\* Votes are recorded in the PREPARE tally and in the COMMIT tallies of both
\* hashes, and a COMMIT is about to finalize one of the hashes.
GarbageCollectionWitness ==
    /\ Engine.prepareMessages # EmptyMap
    /\ \A b \in Hashes : Tally(Engine.commitMessages, b) # {}
    /\ \E m \in VoteMessages : Finalizes(Call(m))
    /\ \E m \in NewRoundMessages : m.blockHeight > Engine.currentHeight

\* -------------------------------------------------------------- C17
\* C17 Votes are kept while the height is in progress: a NEW_ROUND whose
\* blockHeight is the height in progress, currentHeight + 1, leaves both
\* tallies as they were; only a finalization or a NEW_ROUND for a higher
\* height discards votes.
VotesKept ==
    \A m \in NewRoundMessages :
        m.blockHeight = Engine.currentHeight + 1 =>
            SameTallies(Call(m), Engine)

\* -------------------------------------------------------------- C18
\* C18 Old NEW_ROUND is a no-op: a NEW_ROUND whose blockHeight is at most
\* currentHeight leaves the engine as it was and broadcasts nothing.
OldNewRoundNoOp ==
    \A m \in NewRoundMessages :
        m.blockHeight <= Engine.currentHeight =>
            /\ Call(m).self = Engine
            /\ Call(m).out = <<>>

\* The engine has finalized once and holds votes in both maps, so a NEW_ROUND
\* for height 0 or 1 has tallies to leave alone.
OldNewRoundNoOpWitness ==
    /\ Engine.currentHeight >= 1
    /\ \E b \in Hashes : Tally(Engine.prepareMessages, b) # {}
    /\ \E b \in Hashes : Tally(Engine.commitMessages, b) # {}

TallyMembership ==
    /\ \A map \in {Engine.prepareMessages, Engine.commitMessages} :
           \A b \in DOMAIN map :
               /\ map[b] \subseteq Engine.validators
               /\ Cardinality(map[b]) <= Cardinality(Engine.validators)
    /\ \A b \in DOMAIN Engine.commitMessages :
           Cardinality(Engine.commitMessages[b]) < Engine.requiredConsensus

\* A PREPARE tally holds all n members and a COMMIT tally is one vote short
\* of requiredConsensus.
TallyMembershipWitness ==
    /\ \E b \in DOMAIN Engine.prepareMessages :
           Engine.prepareMessages[b] = Engine.validators
    /\ \E b \in DOMAIN Engine.commitMessages :
           Cardinality(Engine.commitMessages[b]) = Engine.requiredConsensus - 1

====
